---------------------------- MODULE Spec2Model ----------------------------
(***************************************************************************)
(* Model of pipeline.py: a CSV -> PostgreSQL batch loader.                 *)
(*                                                                         *)
(* A dataset (pandas DataFrame) is a record [cols, rows]: cols is the      *)
(* sequence of column names, rows the sequence of rows, each row a         *)
(* sequence of cells aligned with cols.  A cell is [isna, s]: either the   *)
(* missing value (isna) or a text, the sequence of its characters.         *)
(*                                                                         *)
(* Three specifications share the definitions:                             *)
(*   SpecClean  clean_dataframe applied once and twice to a drawn dataset; *)
(*   SpecCalls  one caller of ensure_table_exists and                      *)
(*              write_dataframe_to_postgres, alone on a reachable store;   *)
(*   Spec       two runs of main() interleaving on one store.              *)
(***************************************************************************)
EXTENDS Integers, Sequences, FiniteSets, TLC

(***************************************************************************)
(* Bounds of the model.                                                    *)
(***************************************************************************)
MaxPad == 1          \* blanks put before / after a text in the input pool
MaxRows == 3         \* rows of a dataset handed to clean_dataframe
MaxCalls == 3        \* calls made by the sequential caller of the store API
NumRefs == 3         \* DataFrame objects that can be alive at once

(***************************************************************************)
(* Cells and texts.                                                        *)
(***************************************************************************)
NA == [isna |-> TRUE, s |-> <<>>]

Txt(s) == [isna |-> FALSE, s |-> s]

Whitespace == {" ", "\t", "\n"}

Pad(k) == [i \in 1..k |-> " "]

\* the keys of the dict given to DataFrame.replace
EmptyMarkers ==
    { <<>>,
      <<"N", "A">>,
      <<"N", "/", "A">>,
      <<"n", "u", "l", "l">>,
      <<"N", "o", "n", "e">> }

\* what DataFrame.replace does to one cell: an exact, whole-value match
ReplaceCell(c) ==
    IF (~c.isna) /\ c.s \in EmptyMarkers THEN NA ELSE c

RECURSIVE LStrip(_)
LStrip(s) ==
    IF s = <<>> THEN s
    ELSE IF Head(s) \in Whitespace THEN LStrip(Tail(s))
    ELSE s

RECURSIVE RStrip(_)
RStrip(s) ==
    IF s = <<>> THEN s
    ELSE IF s[Len(s)] \in Whitespace THEN RStrip(SubSeq(s, 1, Len(s) - 1))
    ELSE s

\* str.strip() with no argument
Strip(s) == RStrip(LStrip(s))

\* Series.astype("string").str.strip() on one cell: missing stays missing
StrStripCell(c) ==
    IF c.isna THEN NA ELSE Txt(Strip(c.s))

(***************************************************************************)
(* DataFrame objects live in a heap, so that a call can be seen to work on *)
(* the caller's object or on a copy.                                       *)
(***************************************************************************)
Refs == 1..NumRefs

\* no DataFrame object
NoRef == NumRefs + 1

Unalloc == [cols |-> <<>>, rows |-> <<>>, live |-> FALSE]

Frame(cols, rows) == [cols |-> cols, rows |-> rows, live |-> TRUE]

\* DataFrame.empty: an axis of length 0
IsEmpty(d) == Len(d.rows) = 0 \/ Len(d.cols) = 0

NewRef(h) == CHOOSE r \in Refs : (~h[r].live) /\ \A q \in Refs : q < r => h[q].live

\* the mutation of C8: no copy is taken, the caller's object is worked on
CopyDfAlias(h, r) == [heap |-> h, ret |-> r]

\* df.copy(): a new object with the same contents
CopyDf(h, r) ==
    LET n == NewRef(h)
    IN  [heap |-> [h EXCEPT ![n] = h[r]], ret |-> n]

\* df.replace({...}, inplace=True)
ReplaceInplace(h, r) ==
    [h EXCEPT ![r].rows =
        [i \in 1..Len(h[r].rows) |->
            [j \in 1..Len(h[r].rows[i]) |-> ReplaceCell(h[r].rows[i][j])]]]

\* df[column_name] = df[column_name].astype("string").str.strip()
StripColumn(h, r, j) ==
    [h EXCEPT ![r].rows =
        [i \in 1..Len(h[r].rows) |->
            [h[r].rows[i] EXCEPT ![j] = StrStripCell(h[r].rows[i][j])]]]

\* the loop over df.columns; every column read with dtype=str is string-like
RECURSIVE StripColumns(_, _, _)
StripColumns(h, r, j) ==
    IF j > Len(h[r].cols) THEN h
    ELSE StripColumns(StripColumn(h, r, j), r, j + 1)

\* the mutation of C2: the last of several equal rows is the one kept
RECURSIVE KeepLast(_)
KeepLast(rows) ==
    IF rows = <<>> THEN <<>>
    ELSE IF \E k \in 2..Len(rows) : rows[k] = Head(rows)
         THEN KeepLast(Tail(rows))
         ELSE <<Head(rows)>> \o KeepLast(Tail(rows))

\* keep="first": a row is dropped when an equal row was already kept;
\* missing values compare equal to each other
RECURSIVE KeepFirst(_)
KeepFirst(rows) ==
    IF rows = <<>> THEN <<>>
    ELSE LET init == KeepFirst(SubSeq(rows, 1, Len(rows) - 1))
             last == rows[Len(rows)]
         IN  IF \E k \in 1..Len(init) : init[k] = last
             THEN init
             ELSE Append(init, last)

\* df.drop_duplicates(inplace=True)
DropDuplicatesInplace(h, r) == [h EXCEPT ![r].rows = KeepFirst(h[r].rows)]

\* the mutation of C3: the trim is done before the empty-markers are replaced
CleanTrimFirst(h, r) ==
    IF IsEmpty(h[r]) THEN [heap |-> h, ret |-> r]
    ELSE LET c == CopyDf(h, r)
             h1 == StripColumns(c.heap, c.ret, 1)
             h2 == ReplaceInplace(h1, c.ret)
             h3 == DropDuplicatesInplace(h2, c.ret)
         IN  [heap |-> h3, ret |-> c.ret]

\* clean_dataframe(df): the heap after the call and the reference returned
clean_dataframe(h, r) ==
    IF IsEmpty(h[r]) THEN [heap |-> h, ret |-> r]
    ELSE LET c == CopyDf(h, r)
             h1 == ReplaceInplace(c.heap, c.ret)
             h2 == StripColumns(h1, c.ret, 1)
             h3 == DropDuplicatesInplace(h2, c.ret)
         IN  [heap |-> h3, ret |-> c.ret]

EmptyHeap == [r \in Refs |-> Unalloc]

\* the value clean_dataframe returns for a dataset held by the caller alone
CleanValue(d) ==
    LET res == clean_dataframe([EmptyHeap EXCEPT ![1] = d], 1)
    IN  res.heap[res.ret]

(***************************************************************************)
(* Inputs of the normalization: texts with and without blanks around them, *)
(* the empty-markers among them.                                           *)
(***************************************************************************)
PaddedCores == { <<"N", "A">>, <<"B", "o", "b">> }

BareCores ==
    { <<"N", "/", "A">>, <<"n", "u", "l", "l">>, <<"N", "o", "n", "e">>,
      <<"n", "/", "a">>, <<"N", "a">>, <<"N", "U", "L", "L">> }

TextPool ==
    { Pad(l) \o c \o Pad(r) : c \in PaddedCores, l \in 0..MaxPad, r \in 0..MaxPad }
        \cup BareCores
        \cup { Pad(k) : k \in 0..MaxPad }

CellPool == {NA} \cup { Txt(s) : s \in TextPool }

SmallPool ==
    { NA, Txt(<<>>), Txt(<<"N", "A">>), Txt(<<" ", "N", "A", " ">>),
      Txt(<<"B", "o", "b">>), Txt(<<" ", "B", "o", "b">>) }

PairRows ==
    { << Txt(<<" ", " ", "B", "o", "b", " ", " ">>), Txt(<<"N", "A">>) >>,
      << Txt(<<"B", "o", "b">>), Txt(<<>>) >>,
      << Txt(<<"B", "o", "b">>), NA >>,
      << Txt(<<"B", "o", "b">>), Txt(<<" ", "N", "A">>) >>,
      << NA, Txt(<<"B", "o", "b">>) >> }

SeqsUpTo(S, n) == UNION { [1..k -> S] : k \in 0..n }

\* one-cell datasets over the large pool, datasets of several rows over the
\* small ones
CleanInputs ==
    { Frame(<<"a">>, << <<c>> >>) : c \in CellPool }
        \cup
    { Frame(<<"a">>, rows) : rows \in SeqsUpTo({ <<c>> : c \in SmallPool }, MaxRows) }
        \cup
    { Frame(<<"a", "b">>, rows) : rows \in SeqsUpTo(PairRows, MaxRows) }

(***************************************************************************)
(* The destination store: one slot per table name of the public schema.    *)
(* A table holds its column names and its rows, each row aligned with the  *)
(* table's columns.                                                        *)
(***************************************************************************)
TableNames == {"csv_data", "other"}

AbsentTable == [exists |-> FALSE, cols |-> <<>>, rows |-> <<>>]

EmptyStore == [t \in TableNames |-> AbsentTable]

ColSet(cols) == { cols[k] : k \in 1..Len(cols) }

ColIndex(cols, name) == CHOOSE k \in 1..Len(cols) : cols[k] = name

\* SELECT EXISTS (SELECT FROM information_schema.tables WHERE ... table_name = :table)
TableExists(st, t) == st[t].exists

\* sample_df.head(0)
Head0(d) == Frame(d.cols, <<>>)

\* CREATE TABLE with the frame's columns
CreateTable(st, t, d) ==
    [st EXCEPT ![t] = [exists |-> TRUE, cols |-> d.cols, rows |-> <<>>]]

\* the mutation of C7: the values are inserted by position, whatever the names
InsertRowsByPosition(st, t, d) ==
    LET tc == st[t].cols
        conv(row) == [k \in 1..Len(tc) |-> IF k <= Len(row) THEN row[k] ELSE NA]
    IN  [ok |-> TRUE,
         store |-> [st EXCEPT ![t].rows =
                       @ \o [i \in 1..Len(d.rows) |-> conv(d.rows[i])]]]

\* INSERT INTO t (<the frame's columns>) VALUES ...: one statement in one
\* transaction.  It names the frame's columns, so the store rejects it when
\* the table lacks one of them, and fills the columns it does not name with
\* NULL.
InsertRows(st, t, d) ==
    LET tc == st[t].cols
        conv(row) == [k \in 1..Len(tc) |->
                        IF tc[k] \in ColSet(d.cols)
                        THEN row[ColIndex(d.cols, tc[k])]
                        ELSE NA]
    IN  IF ColSet(d.cols) \subseteq ColSet(tc)
        THEN [ok |-> TRUE,
              store |-> [st EXCEPT ![t].rows =
                            @ \o [i \in 1..Len(d.rows) |-> conv(d.rows[i])]]]
        ELSE [ok |-> FALSE, store |-> st]

\* DataFrame.to_sql(name=t, con=engine, if_exists=mode, index=False); up is
\* whether the store can be reached, made whether a table was created
ToSql(st, up, t, d, mode) ==
    LET fresh == InsertRows(CreateTable(st, t, d), t, d)
        added == InsertRows(st, t, d)
    IN  IF ~up THEN [ok |-> FALSE, store |-> st, made |-> FALSE]
        ELSE IF ~st[t].exists
             THEN [ok |-> TRUE, store |-> fresh.store, made |-> TRUE]
        ELSE IF mode = "fail"
             THEN [ok |-> FALSE, store |-> st, made |-> FALSE]
        ELSE IF mode = "replace"
             THEN [ok |-> TRUE, store |-> fresh.store, made |-> TRUE]
        ELSE [ok |-> added.ok, store |-> added.store, made |-> FALSE]

\* the existence check of ensure_table_exists, one transaction
ExistsQuery(st, up, t) ==
    IF ~up THEN [ok |-> FALSE, exists |-> FALSE]
    ELSE [ok |-> TRUE, exists |-> TableExists(st, t)]

\* the mutation of C10: the table is created with if_exists="replace"
CreateReplacing(st, up, t, sample) == ToSql(st, up, t, Head0(sample), "replace")

\* sample_df.head(0).to_sql(name=table_name, con=engine, if_exists="fail", index=False)
CreateFromSample(st, up, t, sample) == ToSql(st, up, t, Head0(sample), "fail")

\* the mutation of C4: the table is created whatever the existence check said
EnsureAlwaysCreates(st, up, t, sample) ==
    LET q == ExistsQuery(st, up, t)
        c == CreateFromSample(st, up, t, sample)
    IN  IF ~q.ok THEN [ok |-> FALSE, store |-> st, calls |-> 1, made |-> FALSE]
        ELSE [ok |-> c.ok, store |-> c.store, calls |-> 2, made |-> c.made]

\* ensure_table_exists(engine, table_name, sample_df) run without another
\* client of the store in between its two transactions
ensure_table_exists(st, up, t, sample) ==
    LET q == ExistsQuery(st, up, t)
        c == CreateFromSample(st, up, t, sample)
    IN  IF ~q.ok THEN [ok |-> FALSE, store |-> st, calls |-> 1, made |-> FALSE]
        ELSE IF q.exists THEN [ok |-> TRUE, store |-> st, calls |-> 1, made |-> FALSE]
        ELSE [ok |-> c.ok, store |-> c.store, calls |-> 2, made |-> c.made]

\* the mutation of C6: the empty dataset is not short-circuited
WriteNoShortCut(st, up, d, t) ==
    LET res == ToSql(st, up, t, d, "append")
    IN  [ok |-> res.ok, store |-> res.store, calls |-> 1, made |-> res.made,
         ret |-> IF res.ok THEN Len(d.rows) ELSE 0]

\* the mutation of C5: the rows already in the table are counted too
WriteCountsTable(st, up, d, t) ==
    IF IsEmpty(d)
    THEN [ok |-> TRUE, store |-> st, calls |-> 0, made |-> FALSE, ret |-> 0]
    ELSE LET res == ToSql(st, up, t, d, "append")
         IN  [ok |-> res.ok, store |-> res.store, calls |-> 1, made |-> res.made,
              ret |-> IF res.ok THEN Len(res.store[t].rows) ELSE 0]

\* write_dataframe_to_postgres(engine, df, table_name): whether it returns
\* or raises, the store afterwards, the store calls made, the value returned
write_dataframe_to_postgres(st, up, d, t) ==
    IF IsEmpty(d)
    THEN [ok |-> TRUE, store |-> st, calls |-> 0, made |-> FALSE, ret |-> 0]
    ELSE LET res == ToSql(st, up, t, d, "append")
         IN  [ok |-> res.ok, store |-> res.store, calls |-> 1, made |-> res.made,
              ret |-> IF res.ok THEN Len(d.rows) ELSE 0]

(***************************************************************************)
(* CSV files.  A file is unreadable, or a header and rows of raw fields.   *)
(***************************************************************************)
\* the fields pandas.read_csv reads as missing when na_values is not given
StrNaValues ==
    { <<>>,
      <<"N", "A">>,
      <<"N", "/", "A">>,
      <<"n", "/", "a">>,
      <<"N", "U", "L", "L">>,
      <<"n", "u", "l", "l">>,
      <<"N", "o", "n", "e">>,
      <<"N", "a", "N">>,
      <<"n", "a", "n">> }

Unreadable == [ok |-> FALSE, cols |-> <<>>, rows |-> <<>>]

CsvFile(cols, rows) == [ok |-> TRUE, cols |-> cols, rows |-> rows]

\* pd.read_csv(csv_path, encoding="utf-8", sep=",", engine="python", dtype=str)
read_csv_to_dataframe(f) ==
    Frame(f.cols,
          [i \in 1..Len(f.rows) |->
              [j \in 1..Len(f.rows[i]) |->
                  IF f.rows[i][j] \in StrNaValues THEN NA ELSE Txt(f.rows[i][j])]])

Headers == { <<"a", "b">>, <<"b", "a">>, <<"a">>, <<"a", "c">> }

\* the data rows of the sample files: none, one, the same one twice, two
\* different ones; every field of a row holds the same text
Bodies ==
    { <<>>,
      << <<"x">> >>,
      << <<"x">>, <<"x">> >>,
      << <<"x">>, <<" ", "N", "A", " ">> >> }

Files ==
    {Unreadable} \cup
    { CsvFile(cols, [i \in 1..Len(b) |-> [j \in 1..Len(cols) |-> b[i]]]) :
        cols \in Headers, b \in Bodies }

\* the caller of clean_dataframe: the heap of DataFrame objects, the caller's
\* dataset and its contents before the call, the two results
VARIABLES heap, dfIn, snap, out1, out2, cpc

\* the store, whether it can be reached, how often each table was created,
\* and the sum of the row counts the appends to it returned
VARIABLES store, storeUp, created, written

\* the sequential caller of the store API: the call last made, its arguments
\* and outcome, the store calls it made, the calls made so far
VARIABLES hFn, hTable, hDf, hOk, hRet, hCalls, hCount

\* the runs of main(): position, arguments, locals, the stages entered, the
\* store calls made, the line printed
VARIABLES pc, csv, table, df_raw, df_clean, exists, inserted, trace, ncalls, printed

cleanVars == <<heap, dfIn, snap, out1, out2, cpc>>

storeVars == <<store, storeUp, created, written>>

callVars == <<hFn, hTable, hDf, hOk, hRet, hCalls, hCount>>

runVars == <<pc, csv, table, df_raw, df_clean, exists, inserted, trace, ncalls, printed>>

vars == <<cleanVars, storeVars, callVars, runVars>>

Procs == {1, 2}

NoFrame == Frame(<<>>, <<>>)

CleanIdle ==
    /\ heap = EmptyHeap
    /\ snap = NoFrame
    /\ dfIn = NoRef
    /\ out1 = NoRef
    /\ out2 = NoRef
    /\ cpc = "unused"

StoreFresh ==
    /\ store = EmptyStore
    /\ created = [t \in TableNames |-> 0]
    /\ written = [t \in TableNames |-> 0]

CallsIdle ==
    /\ hFn = "none"
    /\ hTable = "csv_data"
    /\ hDf = NoFrame
    /\ hOk = TRUE
    /\ hRet = 0
    /\ hCalls = 0
    /\ hCount = 0

RunsIdle ==
    /\ pc = [p \in Procs |-> "start"]
    /\ csv = [p \in Procs |-> Unreadable]
    /\ table = [p \in Procs |-> "csv_data"]
    /\ df_raw = [p \in Procs |-> NoFrame]
    /\ df_clean = [p \in Procs |-> NoFrame]
    /\ exists = [p \in Procs |-> FALSE]
    /\ inserted = [p \in Procs |-> 0]
    /\ trace = [p \in Procs |-> <<>>]
    /\ ncalls = [p \in Procs |-> 0]
    /\ printed = [p \in Procs |-> FALSE]

InitClean ==
    /\ \E d \in CleanInputs : /\ heap = [EmptyHeap EXCEPT ![1] = d]
                              /\ snap = d
    /\ dfIn = 1
    /\ out1 = NoRef
    /\ out2 = NoRef
    /\ cpc = "start"
    /\ StoreFresh
    /\ storeUp = TRUE
    /\ CallsIdle
    /\ RunsIdle

\* the caller runs  once = clean_dataframe(df)
CleanOnce ==
    /\ cpc = "start"
    /\ LET res == clean_dataframe(heap, dfIn)
       IN  /\ heap' = res.heap
           /\ out1' = res.ret
    /\ cpc' = "once"
    /\ UNCHANGED <<dfIn, snap, out2, storeVars, callVars, runVars>>

\* the caller runs  twice = clean_dataframe(once)
CleanTwice ==
    /\ cpc = "once"
    /\ LET res == clean_dataframe(heap, out1)
       IN  /\ heap' = res.heap
           /\ out2' = res.ret
    /\ cpc' = "twice"
    /\ UNCHANGED <<dfIn, snap, out1, storeVars, callVars, runVars>>

NextClean == CleanOnce \/ CleanTwice

SpecClean == InitClean /\ [][NextClean]_vars

(***************************************************************************)
(* A sequential caller of the store API: it calls ensure_table_exists and  *)
(* write_dataframe_to_postgres in any order, with normalized datasets, and *)
(* is the only client of a reachable store.                                *)
(***************************************************************************)
CallInputs == { CleanValue(read_csv_to_dataframe(f)) : f \in Files \ {Unreadable} }

Made(t, made) == [created EXCEPT ![t] = @ + (IF made THEN 1 ELSE 0)]

Returned(t, res) == [written EXCEPT ![t] = @ + (IF res.ok THEN res.ret ELSE 0)]

InitCalls ==
    /\ CleanIdle
    /\ StoreFresh
    /\ storeUp = TRUE
    /\ CallsIdle
    /\ RunsIdle

CallEnsure(t, d) ==
    /\ hCount < MaxCalls
    /\ LET res == ensure_table_exists(store, storeUp, t, d)
       IN  /\ store' = res.store
           /\ created' = Made(t, res.made)
           /\ hOk' = res.ok
           /\ hCalls' = res.calls
    /\ hFn' = "ensure"
    /\ hTable' = t
    /\ hDf' = d
    /\ hRet' = 0
    /\ hCount' = hCount + 1
    /\ UNCHANGED <<storeUp, written, cleanVars, runVars>>

CallWrite(t, d) ==
    /\ hCount < MaxCalls
    /\ LET res == write_dataframe_to_postgres(store, storeUp, d, t)
       IN  /\ store' = res.store
           /\ created' = Made(t, res.made)
           /\ hOk' = res.ok
           /\ hCalls' = res.calls
           /\ hRet' = res.ret
           /\ written' = Returned(t, res)
    /\ hFn' = "write"
    /\ hTable' = t
    /\ hDf' = d
    /\ hCount' = hCount + 1
    /\ UNCHANGED <<storeUp, cleanVars, runVars>>

NextCalls ==
    \E t \in TableNames, d \in CallInputs : CallEnsure(t, d) \/ CallWrite(t, d)

SpecCalls == InitCalls /\ [][NextCalls]_vars

(***************************************************************************)
(* The program: runs of main() against one store.  Nothing coordinates two *)
(* runs, so their store transactions interleave freely, and the store may  *)
(* become unreachable and reachable again at any time.                     *)
(***************************************************************************)
Stages == <<"ingest", "normalize", "ensure", "append">>

Init ==
    /\ CleanIdle
    /\ StoreFresh
    /\ storeUp \in BOOLEAN
    /\ CallsIdle
    /\ RunsIdle

\* parse_args(), load_environment(), create_db_engine(): no store call yet
Start(p) ==
    /\ pc[p] = "start"
    /\ \E f \in Files : csv' = [csv EXCEPT ![p] = f]
    /\ \E t \in TableNames : table' = [table EXCEPT ![p] = t]
    /\ pc' = [pc EXCEPT ![p] = "read"]
    /\ UNCHANGED <<df_raw, df_clean, exists, inserted, trace, ncalls, printed>>
    /\ UNCHANGED <<cleanVars, storeVars, callVars>>

\* the mutation of C9: a file that cannot be read is taken as an empty dataset
ReadCsvSwallow(p) ==
    /\ pc[p] = "read"
    /\ trace' = [trace EXCEPT ![p] = Append(@, "ingest")]
    /\ df_raw' = [df_raw EXCEPT ![p] = read_csv_to_dataframe(csv[p])]
    /\ pc' = [pc EXCEPT ![p] = "clean"]
    /\ UNCHANGED <<csv, table, df_clean, exists, inserted, ncalls, printed>>
    /\ UNCHANGED <<cleanVars, storeVars, callVars>>

\* df_raw = read_csv_to_dataframe(csv_path)
ReadCsv(p) ==
    /\ pc[p] = "read"
    /\ trace' = [trace EXCEPT ![p] = Append(@, "ingest")]
    /\ IF csv[p].ok
       THEN /\ df_raw' = [df_raw EXCEPT ![p] = read_csv_to_dataframe(csv[p])]
            /\ pc' = [pc EXCEPT ![p] = "clean"]
       ELSE /\ pc' = [pc EXCEPT ![p] = "failed"]
            /\ UNCHANGED df_raw
    /\ UNCHANGED <<csv, table, df_clean, exists, inserted, ncalls, printed>>
    /\ UNCHANGED <<cleanVars, storeVars, callVars>>

\* df_clean = clean_dataframe(df_raw)
Clean(p) ==
    /\ pc[p] = "clean"
    /\ trace' = [trace EXCEPT ![p] = Append(@, "normalize")]
    /\ df_clean' = [df_clean EXCEPT ![p] = CleanValue(df_raw[p])]
    /\ pc' = [pc EXCEPT ![p] = "ensure"]
    /\ UNCHANGED <<csv, table, df_raw, exists, inserted, ncalls, printed>>
    /\ UNCHANGED <<cleanVars, storeVars, callVars>>

\* ensure_table_exists, first transaction: the existence check
EnsureCheck(p) ==
    /\ pc[p] = "ensure"
    /\ trace' = [trace EXCEPT ![p] = Append(@, "ensure")]
    /\ ncalls' = [ncalls EXCEPT ![p] = @ + 1]
    /\ LET q == ExistsQuery(store, storeUp, table[p])
       IN  /\ exists' = [exists EXCEPT ![p] = q.exists]
           /\ pc' = [pc EXCEPT ![p] =
                        IF ~q.ok THEN "failed"
                        ELSE IF q.exists THEN "write"
                        ELSE "create"]
    /\ UNCHANGED <<csv, table, df_raw, df_clean, inserted, printed>>
    /\ UNCHANGED <<cleanVars, storeVars, callVars>>

\* ensure_table_exists, second transaction: the creation, when the check
\* found no table
EnsureCreate(p) ==
    /\ pc[p] = "create"
    /\ ncalls' = [ncalls EXCEPT ![p] = @ + 1]
    /\ LET c == CreateFromSample(store, storeUp, table[p], df_clean[p])
       IN  /\ store' = c.store
           /\ created' = Made(table[p], c.made)
           /\ pc' = [pc EXCEPT ![p] = IF c.ok THEN "write" ELSE "failed"]
    /\ UNCHANGED <<csv, table, df_raw, df_clean, exists, inserted, trace, printed>>
    /\ UNCHANGED <<storeUp, written, cleanVars, callVars>>

\* inserted = write_dataframe_to_postgres(engine, df_clean, table_name)
Write(p) ==
    /\ pc[p] = "write"
    /\ trace' = [trace EXCEPT ![p] = Append(@, "append")]
    /\ LET res == write_dataframe_to_postgres(store, storeUp, df_clean[p], table[p])
       IN  /\ store' = res.store
           /\ created' = Made(table[p], res.made)
           /\ ncalls' = [ncalls EXCEPT ![p] = @ + res.calls]
           /\ inserted' = [inserted EXCEPT ![p] = res.ret]
           /\ written' = Returned(table[p], res)
           /\ pc' = [pc EXCEPT ![p] = IF res.ok THEN "print" ELSE "failed"]
    /\ UNCHANGED <<csv, table, df_raw, df_clean, exists, printed>>
    /\ UNCHANGED <<storeUp, cleanVars, callVars>>

\* print(f"Inserted {rows} rows into table '{args.table_name}'.")
PrintLine(p) ==
    /\ pc[p] = "print"
    /\ printed' = [printed EXCEPT ![p] = TRUE]
    /\ pc' = [pc EXCEPT ![p] = "done"]
    /\ UNCHANGED <<csv, table, df_raw, df_clean, exists, inserted, trace, ncalls>>
    /\ UNCHANGED <<cleanVars, storeVars, callVars>>

\* the store becomes unreachable, or reachable again
Outage ==
    /\ storeUp' = ~storeUp
    /\ UNCHANGED <<store, created, written, cleanVars, callVars, runVars>>

Next ==
    \/ \E p \in Procs :
          \/ Start(p)
          \/ ReadCsv(p)
          \/ Clean(p)
          \/ EnsureCheck(p)
          \/ EnsureCreate(p)
          \/ Write(p)
          \/ PrintLine(p)
    \/ Outage

Spec == Init /\ [][Next]_vars

(***************************************************************************)
(* Properties of clean_dataframe, checked under SpecClean.                 *)
(***************************************************************************)
Called == cpc \in {"once", "twice"}

\* C1: normalizing the result of a normalization changes nothing: same
\* rows, same row order, same cell values.
C1_Idempotent ==
    cpc = "twice" => /\ heap[out2].cols = heap[out1].cols
                     /\ heap[out2].rows = heap[out1].rows

\* a row after the substitution of the empty-markers and the trim
NormRow(row) == [j \in 1..Len(row) |-> StrStripCell(ReplaceCell(row[j]))]

FiveMarkers ==
    { <<>>, <<"N", "A">>, <<"N", "/", "A">>, <<"n", "u", "l", "l">>,
      <<"N", "o", "n", "e">> }

\* t is s without its leading and trailing whitespace
IsTrimOf(t, s) ==
    \E a \in 0..Len(s), b \in 0..Len(s) :
        /\ a + b <= Len(s)
        /\ t = SubSeq(s, a + 1, Len(s) - b)
        /\ \A k \in 1..a : s[k] \in Whitespace
        /\ \A k \in (Len(s) - b + 1)..Len(s) : s[k] \in Whitespace
        /\ t # <<>> => (t[1] \notin Whitespace /\ t[Len(t)] \notin Whitespace)

\* the output cell o is what C3 says of the input cell c
AsClaimed(c, o) ==
    IF c.isna \/ c.s \in FiveMarkers
    THEN o.isna
    ELSE (~o.isna) /\ IsTrimOf(o.s, c.s)

\* C3: a text cell becomes null iff it is exactly one of the five
\* empty-markers; any other text stays a text, only trimmed.  (Rows may be
\* dropped as duplicates, so every input row has its image among the output
\* rows and every output row is the image of an input row.)
C3_ExactMarkersOnly ==
    (Called /\ ~IsEmpty(snap)) =>
        LET in == snap.rows
            out == heap[out1].rows
            image(i, k) == \A j \in 1..Len(in[i]) : AsClaimed(in[i][j], out[k][j])
        IN  /\ \A i \in 1..Len(in) : \E k \in 1..Len(out) : image(i, k)
            /\ \A k \in 1..Len(out) : \E i \in 1..Len(in) : image(i, k)

C3_LowercaseKept ==
    /\ cpc = "once"
    /\ snap.rows = << << Txt(<<"n", "/", "a">>) >> >>
    /\ heap[out1].rows = << << Txt(<<"n", "/", "a">>) >> >>

\* C8: the caller's dataset is the same after the call as before it, the
\* work is done on a copy, the store is not touched, and a dataset of zero
\* rows is returned as it is.
C8_CallerUntouched ==
    Called =>
        /\ heap[dfIn] = snap
        /\ IsEmpty(snap) => (out1 = dfIn /\ heap[out1] = snap)
        /\ (~IsEmpty(snap)) => out1 # dfIn
        /\ store = EmptyStore

C8_WorkedOnCopy ==
    /\ cpc = "once"
    /\ ~IsEmpty(snap)
    /\ heap[out1].rows # snap.rows
    /\ Len(heap[out1].rows) < Len(snap.rows)

(***************************************************************************)
(* Properties of the store API, checked under SpecCalls.                   *)
(***************************************************************************)
CallOf(fn) == hCount' = hCount + 1 /\ hFn' = fn

\* C4: ensure_table_exists on a table that does not exist creates it with
\* no rows and the sample's columns; called again for that table it changes
\* nothing and raises nothing, whatever the sample; no table is created twice.
C4_EnsureIdempotent ==
    /\ [][ CallOf("ensure") =>
             IF store[hTable'].exists
             THEN hOk' /\ store' = store /\ created' = created
             ELSE /\ hOk'
                  /\ store' = [store EXCEPT ![hTable'] =
                                  [exists |-> TRUE, cols |-> hDf'.cols, rows |-> <<>>]]
                  /\ created' = [created EXCEPT ![hTable'] = 1] ]_vars
    /\ [](\A t \in TableNames : created[t] <= 1)

C4_EnsuredTwice ==
    /\ hCount = 2
    /\ hFn = "ensure"
    /\ hOk
    /\ hCalls = 1
    /\ created[hTable] = 1
    /\ store[hTable].exists
    /\ store[hTable].rows = <<>>
    /\ store[hTable].cols # hDf.cols

\* C5: an append of N rows to an existing table with the dataset's columns
\* returns N and makes the table N rows longer; the appends accumulate: a
\* table holds as many rows as the appends to it returned in total.
C5_AppendCount ==
    /\ [][ ( /\ CallOf("write")
             /\ store[hTable'].exists
             /\ store[hTable'].cols = hDf'.cols )
           => /\ hOk'
              /\ hRet' = Len(hDf'.rows)
              /\ Len(store'[hTable'].rows) = Len(store[hTable'].rows) + Len(hDf'.rows)
              /\ \A t \in TableNames \ {hTable'} : store'[t] = store[t] ]_vars
    /\ [](\A t \in TableNames : Len(store[t].rows) = written[t])

C5_AppendedTwice ==
    /\ hFn = "write"
    /\ hOk
    /\ hRet = 2
    /\ store[hTable].cols = hDf.cols
    /\ Len(store[hTable].rows) = 4
    /\ written[hTable] = 4

(***************************************************************************)
(* Properties of the runs, checked under Spec.                             *)
(***************************************************************************)
\* run p takes the step that leaves position at
Leaves(p, at) == pc[p] = at /\ pc'[p] # at

IsPrefix(a, b) == Len(a) <= Len(b) /\ a = SubSeq(b, 1, Len(a))

\* C6: a header-only CSV is normalized to zero rows, and the append of it
\* returns 0 without a store call: nothing inserted, nothing created, the
\* store as before, even when the store cannot be reached.
C6_EmptyDatasetNoStoreCall ==
    [][ \A p \in Procs :
          (Leaves(p, "write") /\ Len(csv[p].rows) = 0)
          => /\ Len(df_clean[p].rows) = 0
             /\ pc'[p] = "print"
             /\ inserted'[p] = 0
             /\ ncalls' = ncalls
             /\ store' = store
             /\ created' = created ]_vars

C6_HeaderOnlyRun ==
    \E p \in Procs :
        /\ pc[p] = "done"
        /\ csv[p].ok
        /\ Len(csv[p].rows) = 0
        /\ inserted[p] = 0
        /\ printed[p]
        /\ store[table[p]].rows = <<>>

\* C7 as stated: an append of a dataset (one that has rows to append) whose
\* columns differ in name or order from the existing table's raises and
\* leaves the table as it was.
C7_AnyMismatchFails ==
    [][ \A p \in Procs :
          ( /\ Leaves(p, "write")
            /\ store[table[p]].exists
            /\ ~IsEmpty(df_clean[p])
            /\ df_clean[p].cols # store[table[p]].cols )
          => (pc'[p] = "failed" /\ store' = store) ]_vars

\* C7 amended: an append of a dataset that has rows and a column the
\* existing table lacks raises and leaves the store as it was, also when
\* the table existed before the run; a run that failed prints no line.
C7_UnknownColumnFails ==
    /\ [][ \A p \in Procs :
             ( /\ Leaves(p, "write")
               /\ store[table[p]].exists
               /\ ~IsEmpty(df_clean[p])
               /\ ~(ColSet(df_clean[p].cols) \subseteq ColSet(store[table[p]].cols)) )
             => /\ pc'[p] = "failed"
                /\ store' = store
                /\ written' = written ]_vars
    /\ [](\A p \in Procs : pc[p] = "failed" => ~printed[p])
    /\ [][ \A p \in Procs : pc[p] = "failed" => pc'[p] = "failed" ]_vars

C7_RejectedAppend ==
    \E p \in Procs :
        /\ pc[p] = "failed"
        /\ Len(trace[p]) = 4
        /\ exists[p]
        /\ ncalls[p] = 2
        /\ ~IsEmpty(df_clean[p])
        /\ "c" \in ColSet(df_clean[p].cols)
        /\ store[table[p]].cols = <<"a", "b">>
        /\ Len(store[table[p]].rows) > 0

\* C9: the stages run in the order ingest, normalize, ensure, append, each
\* at most once; a stage that fails ends the run: no later stage, no retry,
\* no line printed; nothing done to the store is undone.  A run that failed
\* in ingest or normalize made no store call; a run that failed in the
\* append leaves its table in place.
C9_StagesInOrderAbortOnFailure ==
    /\ [](\A p \in Procs : IsPrefix(trace[p], Stages))
    /\ [](\A p \in Procs : printed[p] => (pc[p] = "done" /\ trace[p] = Stages))
    /\ [](\A p \in Procs :
            (pc[p] = "failed" /\ Len(trace[p]) <= 2) => ncalls[p] = 0)
    /\ [](\A p \in Procs :
            (pc[p] = "failed" /\ Len(trace[p]) = 4)
            => (store[table[p]].exists /\ ~printed[p]))
    /\ [][ \A p \in Procs :
             /\ pc[p] = "failed"
                => (pc'[p] = "failed" /\ trace'[p] = trace[p] /\ ncalls'[p] = ncalls[p])
             /\ (Leaves(p, "read") /\ ~csv[p].ok) => pc'[p] = "failed"
             /\ (Leaves(p, "ensure") /\ ~storeUp) => pc'[p] = "failed"
             /\ (Leaves(p, "create") /\ ~storeUp) => pc'[p] = "failed"
             /\ (Leaves(p, "write") /\ ~storeUp /\ ~IsEmpty(df_clean[p]))
                => pc'[p] = "failed" ]_vars
    /\ [][ \A t \in TableNames :
             store[t].exists
             => /\ store'[t].exists
                /\ store'[t].cols = store[t].cols
                /\ IsPrefix(store[t].rows, store'[t].rows) ]_vars

C9_AppendFailedTableStays ==
    \E p \in Procs :
        /\ pc[p] = "failed"
        /\ trace[p] = Stages
        /\ ~exists[p]
        /\ ncalls[p] = 3
        /\ created[table[p]] = 1
        /\ store[table[p]].exists
        /\ store[table[p]].rows = <<>>
        /\ ~printed[p]

\* C10: whatever the interleaving of the runs, a table is created at most
\* once, and a creation attempted when the table exists raises and leaves
\* the store, the rows already appended included, as it was.
C10_CreatedOnceSecondFails ==
    /\ [](\A t \in TableNames : created[t] <= 1)
    /\ [](\A t \in TableNames : store[t].exists <=> created[t] = 1)
    /\ [][ \A p \in Procs :
             (Leaves(p, "create") /\ store[table[p]].exists)
             => (pc'[p] = "failed" /\ store' = store /\ created' = created) ]_vars

C10_BothSawAbsent ==
    \E p \in Procs, q \in Procs :
        /\ p # q
        /\ table[p] = table[q]
        /\ ~exists[p]
        /\ ~exists[q]
        /\ pc[p] = "done"
        /\ inserted[p] > 0
        /\ pc[q] = "failed"
        /\ trace[q] = <<"ingest", "normalize", "ensure">>
        /\ ncalls[q] = 2
        /\ created[table[q]] = 1
        /\ Len(store[table[q]].rows) = inserted[p]

=============================================================================
